---- MODULE Spec2Model ----
(***************************************************************************)
(* Model of upload-wasm.py: a one-shot utility that reads a WASM file,     *)
(* encodes it as a candid blob literal, pipes it to `dfx canister call     *)
(* <canister> uploadIcrc151Wasm --argument-file -`, then runs              *)
(* `dfx canister call <canister> hasIcrc151Wasm` and looks for "(true)"    *)
(* in its standard output.                                                 *)
(*                                                                         *)
(* Text is modelled as a sequence of one-character strings, so that        *)
(* lengths, slices and substring tests are computed and not assumed.       *)
(***************************************************************************)
EXTENDS Integers, Sequences, FiniteSets, TLC

\* ------------------------------------------------------------------ bounds

\* Longest payload drawn from the byte alphabet for the run of the program.
MaxLen == 3

\* Longest payload of the pairs the encoder is applied to on its own.
MaxPairLen == 2

\* ------------------------------------------------------------- input sets

\* Byte values of the payloads: a byte with a leading zero nibble (0x0a), a
\* byte with a trailing zero nibble (0xf0) and a byte with two letters (0xde).
Bytes == {10, 222, 240}

\* The 4-byte payload DE AD BE EF.
DeadBeef == <<222, 173, 190, 239>>

SeqsUpTo(S, n) == UNION {[1..k -> S] : k \in 0..n}

Payloads == SeqsUpTo(Bytes, MaxLen) \cup {DeadBeef}

\* Byte values of the pairs: 0a ad and aa 0d share their digits when the
\* leading zero is lost.
PairBytes == {10, 13, 170, 173}

PairPayloads == SeqsUpTo(PairBytes, MaxPairLen)

\* What the external command may exit with.
ReturnCodes == {0, 1}

\* What the verification command may print.
Stdouts ==
  { <<>>,
    <<"(", "t", "r", "u", "e", ")">>,
    <<"(", "f", "a", "l", "s", "e", ")">>,
    <<"x", " ", "(", "t", "r", "u", "e", ")", "\n">>,
    <<"(", "t", "r", "u", "e">>,
    <<"(", "T", "r", "u", "e", ")">> }

\* Command lines the program may be started with: sys.argv[1:].
Argvs == { <<>>, <<"a.wasm">>, <<"a.wasm", "factory2">> }

\* A value that may not be there yet: None, or Some(x) with Val(Some(x)) = x.
None == <<>>
Some(x) == <<x>>
Val(o) == o[1]

\* ------------------------------------------------------- the pure encoder

Min(a, b) == IF a < b THEN a ELSE b

HexChars ==
  <<"0", "1", "2", "3", "4", "5", "6", "7",
    "8", "9", "a", "b", "c", "d", "e", "f">>

\* format(b, 'x'): no zero padding.
ByteHexNoPad(b) ==
  IF b < 16 THEN <<HexChars[b + 1]>>
  ELSE <<HexChars[(b \div 16) + 1], HexChars[(b % 16) + 1]>>

\* The two nibbles in the wrong order.
ByteHexSwapped(b) == <<HexChars[(b % 16) + 1], HexChars[(b \div 16) + 1]>>

\* One byte of bytes.hex(): two lowercase hex digits, high nibble first.
ByteHex(b) == <<HexChars[(b \div 16) + 1], HexChars[(b % 16) + 1]>>

\* bytes.hex(): the digits of every byte, in order, no separator.
RECURSIVE BytesHex(_)
BytesHex(B) ==
  IF Len(B) = 0 THEN <<>> ELSE ByteHex(Head(B)) \o BytesHex(Tail(B))

\* Python's s[i:j] for 0 <= i <= j (the end is clipped to len(s)).
PySlice(s, i, j) == SubSeq(s, i + 1, Min(j, Len(s)))

\* "".join([f"\\{hex_data[i:i+2]}" for i in range(from, len(hex_data), 2)])
RECURSIVE JoinEscaped(_, _)
JoinEscaped(hex_data, from) ==
  IF from >= Len(hex_data) THEN <<>>
  ELSE <<"\\">> \o PySlice(hex_data, from, from + 2)
         \o JoinEscaped(hex_data, from + 2)

\* A join that drops the backslash of the first group.
EscapedHexNoFirstEscape(hex_data) ==
  IF Len(hex_data) = 0 THEN <<>>
  ELSE PySlice(hex_data, 0, 2) \o JoinEscaped(hex_data, 2)

EscapedHex(hex_data) == JoinEscaped(hex_data, 0)

BlobPrefix == <<"(", "b", "l", "o", "b", " ", "\"">>
BlobSuffix == <<"\"", ")">>

\* f'(blob "{escaped_hex}")'
BlobArgument(escaped_hex) == BlobPrefix \o escaped_hex \o BlobSuffix

\* The whole encoding of a payload, as upload_wasm composes it.
Encoding(B) == BlobArgument(EscapedHex(BytesHex(B)))

\* "(true)" in stdout tested as equality.
HasMarkerExact(stdout) == stdout = <<"(", "t", "r", "u", "e", ")">>

TrueMarker == <<"(", "t", "r", "u", "e", ")">>

\* Python's `sub in s` for text.
Contains(sub, s) ==
  \E i \in 0..(Len(s) - Len(sub)) : SubSeq(s, i + 1, i + Len(sub)) = sub

\* "(true)" in verify_result.stdout
HasMarker(stdout) == Contains(TrueMarker, stdout)

UploadCmd(canister) ==
  <<"dfx", "canister", "call", canister, "uploadIcrc151Wasm",
    "--argument-file", "-">>

\* The verification command with the default canister hard-coded.
VerifyCmdDefault(canister) ==
  <<"dfx", "canister", "call", "marketfactory", "hasIcrc151Wasm">>

VerifyCmd(canister) ==
  <<"dfx", "canister", "call", canister, "hasIcrc151Wasm">>

\* ------------------------------------------------------------------ state

VARIABLES
  pc,             \* position of the program
  argv,           \* sys.argv[1:]
  file_exists,    \* whether wasm_path exists when it is checked
  file_bytes,     \* the contents of the file at wasm_path
  wasm_path,      \* the path upload_wasm is given
  canister_name,  \* the target upload_wasm is given
  wasm_bytes,     \* what f.read() returned, or None
  hex_data,       \* wasm_bytes.hex(), or None
  escaped_hex,    \* the joined escapes, or None
  upload,         \* the upload subprocess: state, cmd, input, exit status
  verify,         \* the verification subprocess: state, cmd, exit status,
                  \* and the text captured from its standard output
  raised,         \* "no", "caught" or "propagated"
  success,        \* what upload_wasm returned, or None
  exit_code,      \* what sys.exit was given, or None
  encIn,          \* the pair of payloads
  encOut,         \* their encodings, or None
  encPc           \* position

vars ==
  <<pc, argv, file_exists, file_bytes, wasm_path, canister_name, wasm_bytes,
    hex_data, escaped_hex, upload, verify, raised, success, exit_code,
    encIn, encOut, encPc>>

progVars ==
  <<pc, argv, file_exists, file_bytes, wasm_path, canister_name, wasm_bytes,
    hex_data, escaped_hex, upload, verify, raised, success, exit_code>>

encVars == <<encIn, encOut, encPc>>

\* A subprocess: `result` says whether subprocess.run handed a result object
\* (exit status and captured text) back to the program.
NoProcess == [state |-> "none", cmd |-> <<>>, input |-> None,
              returncode |-> None, stdout |-> None, result |-> FALSE]

\* The state the interpreter starts the script in (line 66).
ProgInit ==
  /\ pc = "main"
  /\ argv \in Argvs
  /\ file_exists \in BOOLEAN
  /\ file_bytes \in Payloads
  /\ wasm_path = None
  /\ canister_name = None
  /\ wasm_bytes = None
  /\ hex_data = None
  /\ escaped_hex = None
  /\ upload = NoProcess
  /\ verify = NoProcess
  /\ raised = "no"
  /\ success = None
  /\ exit_code = None

Init ==
  /\ ProgInit
  /\ encIn = <<>>
  /\ encOut = None
  /\ encPc = "off"

\* ---------------------------------------------------------------- actions

\* __main__, lines 67-79: defaults, then the arguments, then the call.
Main ==
  /\ pc = "main"
  /\ wasm_path' = Some(IF Len(argv) > 0 THEN argv[1] ELSE "wasm/icrc151.wasm")
  /\ canister_name' = Some(IF Len(argv) > 1 THEN argv[2] ELSE "marketfactory")
  /\ pc' = "check"
  /\ UNCHANGED encVars
  /\ UNCHANGED <<argv, file_exists, file_bytes, wasm_bytes, hex_data,
                 escaped_hex, upload, verify, raised, success, exit_code>>

\* The missing-file branch returning True.
CheckExistsReturnsTrue ==
  /\ pc = "check"
  /\ IF ~file_exists
       THEN /\ success' = Some(TRUE)
            /\ pc' = "returned"
       ELSE /\ success' = success
            /\ pc' = "read"
  /\ UNCHANGED encVars
  /\ UNCHANGED <<argv, file_exists, file_bytes, wasm_path, canister_name,
                 wasm_bytes, hex_data, escaped_hex, upload, verify, raised,
                 exit_code>>

\* Lines 9-11: if not os.path.exists(wasm_path): return False
CheckExists ==
  /\ pc = "check"
  /\ IF ~file_exists
       THEN /\ success' = Some(FALSE)
            /\ pc' = "returned"
       ELSE /\ success' = success
            /\ pc' = "read"
  /\ UNCHANGED encVars
  /\ UNCHANGED <<argv, file_exists, file_bytes, wasm_path, canister_name,
                 wasm_bytes, hex_data, escaped_hex, upload, verify, raised,
                 exit_code>>

\* Lines 14-15: the file is read whole.
ReadFile ==
  /\ pc = "read"
  /\ wasm_bytes' = Some(file_bytes)
  /\ pc' = "encode"
  /\ UNCHANGED encVars
  /\ UNCHANGED <<argv, file_exists, file_bytes, wasm_path, canister_name,
                 hex_data, escaped_hex, upload, verify, raised, success,
                 exit_code>>

\* Lines 14-15 raising: the file vanished or cannot be read after the check.
ReadFileRaises ==
  /\ pc = "read"
  /\ pc' = "except"
  /\ UNCHANGED encVars
  /\ UNCHANGED <<argv, file_exists, file_bytes, wasm_path, canister_name,
                 wasm_bytes, hex_data, escaped_hex, upload, verify, raised,
                 success, exit_code>>

\* Lines 17-26: the size, the hex digits and the joined escapes.
Encode ==
  /\ pc = "encode"
  /\ hex_data' = Some(BytesHex(Val(wasm_bytes)))
  /\ escaped_hex' = Some(EscapedHex(BytesHex(Val(wasm_bytes))))
  /\ pc' = "upload_call"
  /\ UNCHANGED encVars
  /\ UNCHANGED <<argv, file_exists, file_bytes, wasm_path, canister_name,
                 wasm_bytes, upload, verify, raised, success, exit_code>>

\* Lines 17-26 raising (out of memory while the text is built).
EncodeRaises ==
  /\ pc = "encode"
  /\ pc' = "except"
  /\ UNCHANGED encVars
  /\ UNCHANGED <<argv, file_exists, file_bytes, wasm_path, canister_name,
                 wasm_bytes, hex_data, escaped_hex, upload, verify, raised,
                 success, exit_code>>

\* Popen without waiting: the program goes on while the process runs.
UploadCallNoWait ==
  /\ pc = "upload_call"
  /\ upload' = [state |-> "running", cmd |-> UploadCmd(Val(canister_name)),
                input |-> Some(BlobArgument(Val(escaped_hex))),
                returncode |-> Some(0),
                stdout |-> None, result |-> TRUE]
  /\ pc' = "upload_check"
  /\ UNCHANGED encVars
  /\ UNCHANGED <<argv, file_exists, file_bytes, wasm_path, canister_name,
                 wasm_bytes, hex_data, escaped_hex, verify, raised, success,
                 exit_code>>

\* Lines 28-38: subprocess.run spawns the upload command, the blob literal
\* on its standard input, and blocks.
UploadCall ==
  /\ pc = "upload_call"
  /\ upload' = [state |-> "running", cmd |-> UploadCmd(Val(canister_name)),
                input |-> Some(BlobArgument(Val(escaped_hex))),
                returncode |-> None,
                stdout |-> None, result |-> FALSE]
  /\ pc' = "upload_wait"
  /\ UNCHANGED encVars
  /\ UNCHANGED <<argv, file_exists, file_bytes, wasm_path, canister_name,
                 wasm_bytes, hex_data, escaped_hex, verify, raised, success,
                 exit_code>>

\* Line 38 raising before a process exists (no `dfx` on the PATH).
UploadSpawnRaises ==
  /\ pc = "upload_call"
  /\ pc' = "except"
  /\ UNCHANGED encVars
  /\ UNCHANGED <<argv, file_exists, file_bytes, wasm_path, canister_name,
                 wasm_bytes, hex_data, escaped_hex, upload, verify, raised,
                 success, exit_code>>

\* Line 38 returning: the upload process ended with some exit status.
UploadTerminates ==
  /\ pc = "upload_wait"
  /\ upload.state = "running"
  /\ \E rc \in ReturnCodes :
       upload' = [upload EXCEPT !.state = "done", !.returncode = Some(rc),
                                !.result = TRUE]
  /\ pc' = "upload_check"
  /\ UNCHANGED encVars
  /\ UNCHANGED <<argv, file_exists, file_bytes, wasm_path, canister_name,
                 wasm_bytes, hex_data, escaped_hex, verify, raised, success,
                 exit_code>>

\* Line 38 raising once the process has ended (its output is not text):
\* no result object reaches the program.
UploadOutputRaises ==
  /\ pc = "upload_wait"
  /\ upload.state = "running"
  /\ \E rc \in ReturnCodes :
       upload' = [upload EXCEPT !.state = "done", !.returncode = Some(rc)]
  /\ pc' = "except"
  /\ UNCHANGED encVars
  /\ UNCHANGED <<argv, file_exists, file_bytes, wasm_path, canister_name,
                 wasm_bytes, hex_data, escaped_hex, verify, raised, success,
                 exit_code>>

\* The exit status of the upload not looked at.
UploadCheckFallsThrough ==
  /\ pc = "upload_check"
  /\ pc' = "verify_call"
  /\ UNCHANGED encVars
  /\ UNCHANGED <<argv, file_exists, file_bytes, wasm_path, canister_name,
                 wasm_bytes, hex_data, escaped_hex, upload, verify, raised,
                 success, exit_code>>

\* Lines 40-45: if result.returncode != 0: return False
UploadCheck ==
  /\ pc = "upload_check"
  /\ IF Val(upload.returncode) # 0
       THEN /\ success' = Some(FALSE)
            /\ pc' = "returned"
       ELSE /\ success' = success
            /\ pc' = "verify_call"
  /\ UNCHANGED encVars
  /\ UNCHANGED <<argv, file_exists, file_bytes, wasm_path, canister_name,
                 wasm_bytes, hex_data, escaped_hex, upload, verify, raised,
                 exit_code>>

\* The verification spawned with the default canister name.
VerifyCallDefaultTarget ==
  /\ pc = "verify_call"
  /\ verify' = [state |-> "running", cmd |-> VerifyCmdDefault(Val(canister_name)),
                input |-> None, returncode |-> None, stdout |-> None,
                result |-> FALSE]
  /\ pc' = "verify_wait"
  /\ UNCHANGED encVars
  /\ UNCHANGED <<argv, file_exists, file_bytes, wasm_path, canister_name,
                 wasm_bytes, hex_data, escaped_hex, upload, raised, success,
                 exit_code>>

\* Lines 49-50: subprocess.run spawns the verification command and blocks.
VerifyCall ==
  /\ pc = "verify_call"
  /\ verify' = [state |-> "running", cmd |-> VerifyCmd(Val(canister_name)),
                input |-> None, returncode |-> None, stdout |-> None,
                result |-> FALSE]
  /\ pc' = "verify_wait"
  /\ UNCHANGED encVars
  /\ UNCHANGED <<argv, file_exists, file_bytes, wasm_path, canister_name,
                 wasm_bytes, hex_data, escaped_hex, upload, raised, success,
                 exit_code>>

\* Line 50 raising before a process exists.
VerifySpawnRaises ==
  /\ pc = "verify_call"
  /\ pc' = "except"
  /\ UNCHANGED encVars
  /\ UNCHANGED <<argv, file_exists, file_bytes, wasm_path, canister_name,
                 wasm_bytes, hex_data, escaped_hex, upload, verify, raised,
                 success, exit_code>>

\* Line 50 returning: the verification process ended with some exit status
\* and some standard output.
VerifyTerminates ==
  /\ pc = "verify_wait"
  /\ verify.state = "running"
  /\ \E rc \in ReturnCodes, out \in Stdouts :
       verify' = [verify EXCEPT !.state = "done", !.returncode = Some(rc),
                                !.stdout = Some(out), !.result = TRUE]
  /\ pc' = "verify_check"
  /\ UNCHANGED encVars
  /\ UNCHANGED <<argv, file_exists, file_bytes, wasm_path, canister_name,
                 wasm_bytes, hex_data, escaped_hex, upload, raised, success,
                 exit_code>>

\* Line 50 raising once the process has ended (its output is not text):
\* no result object, and no standard output text, reaches the program.
VerifyOutputRaises ==
  /\ pc = "verify_wait"
  /\ verify.state = "running"
  /\ \E rc \in ReturnCodes :
       verify' = [verify EXCEPT !.state = "done", !.returncode = Some(rc)]
  /\ pc' = "except"
  /\ UNCHANGED encVars
  /\ UNCHANGED <<argv, file_exists, file_bytes, wasm_path, canister_name,
                 wasm_bytes, hex_data, escaped_hex, upload, raised, success,
                 exit_code>>

\* Lines 51-58: the marker decides; verify_result.returncode is not read.
VerifyCheck ==
  /\ pc = "verify_check"
  /\ success' = Some(HasMarker(Val(verify.stdout)))
  /\ pc' = "returned"
  /\ UNCHANGED encVars
  /\ UNCHANGED <<argv, file_exists, file_bytes, wasm_path, canister_name,
                 wasm_bytes, hex_data, escaped_hex, upload, verify, raised,
                 exit_code>>

\* A handler that lets the exception through: the interpreter ends the
\* process with status 1 and upload_wasm returns nothing.
ExceptReraises ==
  /\ pc = "except"
  /\ raised' = "propagated"
  /\ exit_code' = Some(1)
  /\ pc' = "exited"
  /\ UNCHANGED encVars
  /\ UNCHANGED <<argv, file_exists, file_bytes, wasm_path, canister_name,
                 wasm_bytes, hex_data, escaped_hex, upload, verify, success>>

\* Lines 60-64: except Exception: ... return False
Except ==
  /\ pc = "except"
  /\ raised' = "caught"
  /\ success' = Some(FALSE)
  /\ pc' = "returned"
  /\ UNCHANGED encVars
  /\ UNCHANGED <<argv, file_exists, file_bytes, wasm_path, canister_name,
                 wasm_bytes, hex_data, escaped_hex, upload, verify,
                 exit_code>>

\* Lines 79-88: sys.exit(0 if success else 1)
Exit ==
  /\ pc = "returned"
  /\ exit_code' = Some(IF Val(success) THEN 0 ELSE 1)
  /\ pc' = "exited"
  /\ UNCHANGED encVars
  /\ UNCHANGED <<argv, file_exists, file_bytes, wasm_path, canister_name,
                 wasm_bytes, hex_data, escaped_hex, upload, verify, raised,
                 success>>

\* What the program does on its own.
ProgramStep ==
  \/ Main
  \/ CheckExists
  \/ ReadFile
  \/ ReadFileRaises
  \/ Encode
  \/ EncodeRaises
  \/ UploadCall
  \/ UploadSpawnRaises
  \/ UploadCheck
  \/ VerifyCall
  \/ VerifySpawnRaises
  \/ VerifyCheck
  \/ Except
  \/ Exit

\* What needs an external process to end.
SubprocessEnds ==
  \/ UploadTerminates
  \/ UploadOutputRaises
  \/ VerifyTerminates
  \/ VerifyOutputRaises

Next ==
  \/ Main
  \/ CheckExists
  \/ ReadFile
  \/ ReadFileRaises
  \/ Encode
  \/ EncodeRaises
  \/ UploadCall
  \/ UploadSpawnRaises
  \/ UploadTerminates
  \/ UploadOutputRaises
  \/ UploadCheck
  \/ VerifyCall
  \/ VerifySpawnRaises
  \/ VerifyTerminates
  \/ VerifyOutputRaises
  \/ VerifyCheck
  \/ Except
  \/ Exit

Spec == Init /\ [][Next]_vars

\* The program is scheduled whenever it can take a step, and (the assumption
\* of the termination claim) every spawned process eventually ends.
FairSpec ==
  /\ Init
  /\ [][Next]_vars
  /\ WF_vars(ProgramStep)
  /\ WF_vars(SubprocessEnds)

\* ------------------------------------------------- the encoder on its own

\* The encoder applied to a pair of payloads; the program itself is not run.
EncInit ==
  /\ pc = "off"
  /\ argv = <<>>
  /\ file_exists = FALSE
  /\ file_bytes = <<>>
  /\ wasm_path = None
  /\ canister_name = None
  /\ wasm_bytes = None
  /\ hex_data = None
  /\ escaped_hex = None
  /\ upload = NoProcess
  /\ verify = NoProcess
  /\ raised = "no"
  /\ success = None
  /\ exit_code = None
  /\ encIn \in PairPayloads \X PairPayloads
  /\ encOut = None
  /\ encPc = "start"

\* Lines 25-38 applied to both payloads.
EncodePair ==
  /\ encPc = "start"
  /\ encOut' = Some(<<Encoding(encIn[1]), Encoding(encIn[2])>>)
  /\ encPc' = "encoded"
  /\ UNCHANGED encIn
  /\ UNCHANGED progVars

EncNext == EncodePair

SpecEnc == EncInit /\ [][EncNext]_vars

\* ----------------------------------------------------- claims: vocabulary

Returned == pc \in {"returned", "exited"}

\* The position of the program in the order the source lists the stages.
StageRank(p) ==
  CASE p = "main" -> 0
    [] p = "check" -> 1
    [] p = "read" -> 2
    [] p = "encode" -> 3
    [] p = "upload_call" -> 4
    [] p = "upload_wait" -> 5
    [] p = "upload_check" -> 6
    [] p = "verify_call" -> 7
    [] p = "verify_wait" -> 8
    [] p = "verify_check" -> 9
    [] p = "except" -> 10
    [] p = "returned" -> 11
    [] p = "exited" -> 12
    [] OTHER -> 0 - 1

ProcessRank(st) ==
  CASE st = "none" -> 0 [] st = "running" -> 1 [] st = "done" -> 2
    [] OTHER -> 0 - 1

\* The lowercase hex digit of a nibble, written out apart from the encoder.
NibbleDigit(n) ==
  IF n < 10 THEN <<"0", "1", "2", "3", "4", "5", "6", "7", "8", "9">>[n + 1]
  ELSE <<"a", "b", "c", "d", "e", "f">>[n - 9]

\* s is `(blob "` then, per byte of B, a backslash and two lowercase hex
\* digits, then `")`.
IsBlobOf(s, B) ==
  /\ Len(s) = 7 + 3 * Len(B) + 2
  /\ SubSeq(s, 1, 7) = <<"(", "b", "l", "o", "b", " ", "\"">>
  /\ SubSeq(s, Len(s) - 1, Len(s)) = <<"\"", ")">>
  /\ \A k \in 1..Len(B) :
       /\ s[7 + 3 * (k - 1) + 1] = "\\"
       /\ s[7 + 3 * (k - 1) + 2] = NibbleDigit(B[k] \div 16)
       /\ s[7 + 3 * (k - 1) + 3] = NibbleDigit(B[k] % 16)

DeadBeefText ==
  <<"(", "b", "l", "o", "b", " ", "\"",
    "\\", "d", "e", "\\", "a", "d", "\\", "b", "e", "\\", "e", "f",
    "\"", ")">>

EmptyBlobText == <<"(", "b", "l", "o", "b", " ", "\"", "\"", ")">>

\* The value of a hex digit, or -1.
HexVal(c) ==
  IF \E i \in 0..15 : NibbleDigit(i) = c
    THEN CHOOSE i \in 0..15 : NibbleDigit(i) = c
    ELSE 0 - 1

\* Groups of backslash and two hex digits back to bytes; a group that is not
\* one decodes to -1.
RECURSIVE DecodeGroups(_)
DecodeGroups(t) ==
  IF Len(t) < 3 THEN <<>>
  ELSE << IF t[1] = "\\" /\ HexVal(t[2]) >= 0 /\ HexVal(t[3]) >= 0
            THEN 16 * HexVal(t[2]) + HexVal(t[3])
            ELSE 0 - 1 >>
       \o DecodeGroups(SubSeq(t, 4, Len(t)))

\* The reverse of the encoding: the wrapper stripped, the groups mapped back.
\* Text that is no wrapped run of whole groups decodes to <<-1>>.
Decode(s) ==
  IF /\ Len(s) >= 9
     /\ (Len(s) - 9) % 3 = 0
     /\ SubSeq(s, 1, 7) = <<"(", "b", "l", "o", "b", " ", "\"">>
     /\ SubSeq(s, Len(s) - 1, Len(s)) = <<"\"", ")">>
    THEN DecodeGroups(SubSeq(s, 8, Len(s) - 2))
    ELSE << 0 - 1 >>

\* ------------------------------------------------------------------ claims

\* C1: at the program exit the exit code is 0 exactly when the upload process
\* exited with status 0 and the text captured from the verification process's
\* standard output contains "(true)" somewhere; otherwise it is 1.
C1_ExitCodeIffUploadOkAndMarker ==
  pc = "exited" =>
    /\ exit_code \in {Some(0), Some(1)}
    /\ exit_code = Some(0) <=>
         /\ upload.state = "done"
         /\ upload.returncode = Some(0)
         /\ verify.state = "done"
         /\ verify.result
         /\ Contains(TrueMarker, Val(verify.stdout))

C1_Witness ==
  /\ pc = "exited"
  /\ exit_code = Some(0)
  /\ verify.state = "done"
  /\ verify.stdout = Some(<<"x", " ", "(", "t", "r", "u", "e", ")", "\n">>)

\* C2: when the path does not exist at the check, neither process is ever
\* spawned, upload_wasm returns False and the exit code is 1.
C2_MissingFileNoSubprocess ==
  ~file_exists =>
    /\ upload.state = "none"
    /\ verify.state = "none"
    /\ Returned => success = Some(FALSE)
    /\ pc = "exited" => exit_code = Some(1)

C2_Witness ==
  /\ ~file_exists
  /\ pc = "exited"
  /\ exit_code = Some(1)
  /\ upload.state = "none"

\* C3: whenever the verification command exits non-zero the run fails,
\* whatever it printed.
C3_VerifyExitStatusChecked ==
  (pc = "exited" /\ verify.state = "done" /\ verify.returncode # Some(0))
    => exit_code = Some(1)

\* C4: the standard input of the upload command is `(blob "`, a backslash and
\* two lowercase hex digits per byte of the file in order, then `")`;
\* DE AD BE EF gives (blob "\de\ad\be\ef") and the empty file gives (blob "").
C4_StdinIsBlobLiteral ==
  upload.state # "none" =>
    /\ IsBlobOf(Val(upload.input), file_bytes)
    /\ file_bytes = DeadBeef => Val(upload.input) = DeadBeefText
    /\ file_bytes = <<>> => Val(upload.input) = EmptyBlobText

C4_Witness ==
  /\ upload.state = "running"
  /\ file_bytes = DeadBeef
  /\ upload.input = Some(DeadBeefText)

\* C5 as stated: the encoded argument has 2 + 3*len(B) + 2 characters.
C5_LengthAsStated ==
  upload.state # "none" =>
    Len(Val(upload.input)) = 2 + 3 * Len(file_bytes) + 2

\* C5 as amended: the encoded argument has 7 + 3*len(B) + 2 characters, the
\* wrapper being the 7 characters of `(blob "` and the 2 of `")`.
C5_LengthIsNinePlusThreePerByte ==
  upload.state # "none" =>
    Len(Val(upload.input)) = 7 + 3 * Len(file_bytes) + 2

C5_Witness ==
  /\ upload.state = "done"
  /\ Len(file_bytes) = 3
  /\ Len(Val(upload.input)) = 18

\* C6: decoding the encoding of a payload gives the payload back, and two
\* different payloads never have the same encoding.
C6_RoundTripAndInjective ==
  encPc = "encoded" =>
    /\ Decode(Val(encOut)[1]) = encIn[1]
    /\ Decode(Val(encOut)[2]) = encIn[2]
    /\ Val(encOut)[1] = Val(encOut)[2] => encIn[1] = encIn[2]

C6_Witness ==
  /\ encPc = "encoded"
  /\ encIn[1] = <<10, 173>>
  /\ encIn[2] = <<170, 13>>
  /\ Val(encOut)[1] # Val(encOut)[2]
  /\ Decode(Val(encOut)[1]) = <<10, 173>>

\* C7: an exception raised after the existence check is caught in
\* upload_wasm and never reaches the caller, upload_wasm returns False and the
\* exit code is 1, and no stage runs after the exception: the next step is
\* the handler, and from then on no file is read and no process is spawned.
C7_ExceptionCaughtAndTerminal ==
  /\ [](raised # "propagated")
  /\ []((raised = "caught" /\ Returned) => success = Some(FALSE))
  /\ []((raised = "caught" /\ pc = "exited") => exit_code = Some(1))
  /\ [][pc = "except" => (pc' = "returned" /\ raised' = "caught")]_vars
  /\ [][(pc = "except" \/ raised = "caught") =>
          (upload' = upload /\ verify' = verify /\ wasm_bytes' = wasm_bytes)]_vars

C7_Witness ==
  /\ pc = "exited"
  /\ raised = "caught"
  /\ exit_code = Some(1)
  /\ upload.state = "done"
  /\ upload.returncode = Some(0)
  /\ verify.state = "none"

\* C8 as stated: in every run in which the upload process was spawned and
\* ended (and nothing was raised), the verification process is spawned
\* afterwards, also when the upload exited non-zero.
C8_VerifyAlwaysRuns ==
  (pc = "exited" /\ raised = "no" /\ upload.state = "done")
    => verify.state # "none"

\* C8 as amended: the verification is spawned only after the upload exited
\* with status 0, and then always unless something is raised; when the upload
\* exited non-zero the verification is never spawned and the run fails.
C8_VerifyOnlyAfterUploadOk ==
  /\ verify.state # "none" => (upload.state = "done" /\ upload.returncode = Some(0))
  /\ (Returned /\ upload.state = "done" /\ upload.returncode # Some(0)) =>
       (verify.state = "none" /\ success = Some(FALSE))
  /\ (Returned /\ raised = "no" /\ upload.state = "done"
        /\ upload.returncode = Some(0)) => verify.state = "done"

C8_Witness ==
  /\ pc = "exited"
  /\ raised = "no"
  /\ upload.state = "done"
  /\ upload.returncode = Some(1)
  /\ verify.state = "none"
  /\ exit_code = Some(1)

\* C9: the stages run once each and in order: every step moves to a later
\* stage, a process once spawned is never spawned again, the verification is
\* never spawned before the upload has ended, the upload is never spawned
\* before the file has been read, and both command lines name the canister
\* the run was given.
C9_SequentialOnceSameTarget ==
  /\ [](verify.state # "none" => upload.state = "done")
  /\ [](upload.state # "none" => wasm_bytes = Some(file_bytes))
  /\ [](upload.state # "none" =>
          /\ Some(upload.cmd[4]) = canister_name
          /\ upload.cmd[4] = IF Len(argv) > 1 THEN argv[2] ELSE "marketfactory")
  /\ [](verify.state # "none" => verify.cmd[4] = upload.cmd[4])
  /\ [][StageRank(pc') > StageRank(pc)]_vars
  /\ [][/\ ProcessRank(upload'.state) >= ProcessRank(upload.state)
        /\ ProcessRank(verify'.state) >= ProcessRank(verify.state)
        /\ upload.state # "none" => upload'.cmd = upload.cmd
        /\ verify.state # "none" => verify'.cmd = verify.cmd]_vars

C9_Witness ==
  /\ pc = "exited"
  /\ upload.state = "done"
  /\ verify.state = "done"
  /\ upload.cmd[4] = "factory2"
  /\ verify.cmd[4] = "factory2"

\* C10: if every spawned process eventually ends, every run reaches the exit
\* with code 0 or 1; and while a spawned process has not ended the program
\* takes no step of its own: the only step is the end of that process, so a
\* process that never ends keeps the run from ever reaching the exit.
C10_TerminatesIffSubprocessesEnd ==
  /\ <>(pc = "exited" /\ exit_code \in {Some(0), Some(1)})
  /\ [](pc = "exited" => (upload.state # "running" /\ verify.state # "running"))
  /\ [][/\ upload.state = "running" => upload'.state = "done"
        /\ verify.state = "running" => verify'.state = "done"]_vars

C10_Witness ==
  /\ pc = "exited"
  /\ exit_code = Some(0)
  /\ upload.state = "done"
  /\ verify.state = "done"

====
